---- MODULE Spec2Model ----
(***************************************************************************)
(* Microplan ingestion: the boundary tree builder (utils/boundary.py), the  *)
(* facility reconciler (utils/facility.py) and the pipeline that drives     *)
(* them (transform.py, run_transform), over the two tables of the store.    *)
(*                                                                          *)
(* Names are sequences of one-character strings so that strip() and lower() *)
(* are computed, not assumed.  Codes are strings: the configured root and   *)
(* province codes and the short codes minted by generate_short_code().      *)
(***************************************************************************)
EXTENDS Integers, Sequences, FiniteSets, TLC

VARIABLES
    store,        \* table egov_microplan_boundaries: a set of Boundary rows
    facilities,   \* table egov_microplan_facilities: a set of Facility rows
    nextCode,     \* number of short codes minted so far (shortuuid is fresh)
    pc,           \* position of run_transform
    boundaries,   \* run_transform's local dict: level key -> resolved code
    fpath,        \* the file being processed
    wb,           \* the workbook of the file: the sheet_state of each worksheet
    sheets,       \* visible sheets of the current workbook (workbook indices)
    si,           \* index in sheets of the sheet being processed
    last_row,     \* ws.max_row snapshot of the current sheet
    row,          \* row counter of the current sheet
    result,       \* the dict returned by the last completed run
    exc,          \* the exception that left run_transform, "" when none
    rowlog,       \* observation: what the last boundary row read and upserted
    call,         \* observation: the last direct call of an upsert routine
    faults,       \* environment: persistence failures still to come
    script,       \* environment: the input set of a repeated batch, or NoScript
    runs,         \* calls of run_transform on the script so far
    snapshot,     \* both tables as the first run on the script left them,
                  \* and the exception it ended with
    inflight,     \* concurrent runs: the upsert_boundary call each is in
    session,      \* the SQLAlchemy session of the run: "active", or "inactive"
                  \* after a failed commit that was not rolled back
    excel         \* read_excel (service/excel_services.py): its output frame
                  \* and the locals it carries from row to row

pipeline == <<store, facilities, nextCode, pc, boundaries, fpath, wb,
              sheets, si, last_row, row, result, exc, rowlog>>

vars == <<store, facilities, nextCode, pc, boundaries, fpath,
          sheets, si, last_row, row, result, exc, rowlog,
          call, faults, script, runs, snapshot, inflight, wb, session, excel>>

(***************************************************************************)
(* Bounds                                                                   *)
(***************************************************************************)
MaxSheets == 1     \* worksheets per workbook
MaxRow    == 2     \* ws.max_row of a sheet (row 1 is the header row)
MaxCodes  == 5     \* short codes minted
MaxFaults == 1     \* persistence failures of a behaviour
MaxFaultRows == 1  \* boundary rows of a batch run over a failing persistence
MaxScriptRows == 2 \* boundary rows of a scripted batch
MaxScriptFacilities == 1 \* facility rows of a scripted batch
MaxRaceCalls == 2  \* upsert_boundary calls of each of two concurrent runs
MaxBookSheets == 2 \* worksheets of a workbook that hides some of them
MaxExcelRows == 3  \* rows read_excel reads from its sheet

(***************************************************************************)
(* Strings                                                                  *)
(***************************************************************************)
None == <<"None">>                      \* openpyxl's value of an empty cell

\* the names a sheet may hold in the column of a level: two districts, and
\* two spellings of one administrative post
NamesAt(level) == IF level = 3 THEN { <<"a">>, <<"b">> }
                  ELSE { <<"a">>, <<" ", "A", " ">> }

IsSpace(c) == c = " "

lowerChar(c) == IF c = "A" THEN "a" ELSE IF c = "B" THEN "b" ELSE c

lower(s) == [i \in 1..Len(s) |-> lowerChar(s[i])]

RECURSIVE lstrip(_)
lstrip(s) == IF s # <<>> /\ IsSpace(Head(s)) THEN lstrip(Tail(s)) ELSE s

RECURSIVE rstrip(_)
rstrip(s) ==
    IF s # <<>> /\ IsSpace(s[Len(s)]) THEN rstrip(SubSeq(s, 1, Len(s) - 1)) ELSE s

strip(s) == rstrip(lstrip(s))

cleanup(name) == name

(***************************************************************************)
(* Configuration (constants/constants.py)                                   *)
(***************************************************************************)
BOUNDARY_1_CODE == "mz"
BOUNDARY_2_CODE == "f59850de767417d5e8378n"
BOUNDARY_2_NAME == <<"N">>
START_BOUNDARIES_ROW == 1
FACILITY_START_ROW == 1

\* The first four levels of the configured hierarchy; deeper levels repeat
\* the pattern of level 4.
BOUNDARIES ==
    << [name |-> "COUNTRY", level |-> 1],
       [name |-> "Provincia", level |-> 2],
       [name |-> "Distrito", level |-> 3],
       [name |-> "Posto Administrativo", level |-> 4] >>

BoundaryKeys == DOMAIN BOUNDARIES

TARGET_COLUMNS == 1..5           \* target_1 .. target_5
TargetFields   == 1..15          \* Boundary.target_1 .. target_15, total_1 ..
ZeroedFields   == 1..3           \* range(1, 4) in upsert_boundary

RECURSIVE SetMax(_)
SetMax(S) ==
    LET x == CHOOSE y \in S : TRUE
    IN  IF S = {x} THEN x
        ELSE LET m == SetMax(S \ {x}) IN IF x > m THEN x ELSE m

max_level == SetMax({BOUNDARIES[k].level : k \in BoundaryKeys})

\* get_boundary_name: the key of the level, or "Invalid level" (modelled 0)
get_boundary_name(boundary_level) ==
    IF \E k \in BoundaryKeys : BOUNDARIES[k].level = boundary_level
    THEN CHOOSE k \in BoundaryKeys :
            /\ BOUNDARIES[k].level = boundary_level
            /\ \A j \in BoundaryKeys :
                 BOUNDARIES[j].level = boundary_level => k <= j
    ELSE 0

generate_short_code(n) == "u" \o ToString(n + 1)

ZeroTargets == [i \in TargetFields |-> 0]
NoTargets == [i \in {} |-> 0]

(***************************************************************************)
(* Boundary tree builder (utils/boundary.py)                                *)
(***************************************************************************)
\* .first() of a query without ORDER BY: some row of the result
first(rows) == CHOOSE b \in rows : TRUE

\* the lookup without strip(): a padded cell never matches its stored name
QueryBoundary_nostrip(st, boundary_name, previous_boundary, boundary_type) ==
    { b \in st : /\ lower(b.name) = lower(boundary_name)
                 /\ b.parent_code = previous_boundary
                 /\ b.boundary_type = boundary_type }

\* the lookup on the cell text as typed, neither trimmed nor lower-cased
QueryBoundary_exact(st, boundary_name, previous_boundary, boundary_type) ==
    { b \in st : /\ b.name = boundary_name
                 /\ b.parent_code = previous_boundary
                 /\ b.boundary_type = boundary_type }

\* the lookup without lower(): a case-sensitive match
QueryBoundary_nolower(st, boundary_name, previous_boundary, boundary_type) ==
    { b \in st : /\ b.name = strip(boundary_name)
                 /\ b.parent_code = previous_boundary
                 /\ b.boundary_type = boundary_type }

QueryBoundary(st, boundary_name, previous_boundary, boundary_type) ==
    { b \in st : /\ lower(b.name) = lower(strip(boundary_name))
                 /\ b.parent_code = previous_boundary
                 /\ b.boundary_type = boundary_type }

\* a Boundary built with its own code as parent_code
NewBoundary_selfparent(boundary_name, code, boundary_type, level, parent, filename) ==
    [ code            |-> code,
      name            |-> strip(boundary_name),
      name_in_english |-> strip(boundary_name),
      parent_code     |-> code,
      boundary_type   |-> boundary_type,
      boundary_level  |-> level,
      target          |-> ZeroTargets,
      total           |-> ZeroTargets,
      filename        |-> filename ]

NewBoundary(boundary_name, code, boundary_type, level, parent, filename) ==
    [ code            |-> code,
      name            |-> strip(boundary_name),
      name_in_english |-> strip(boundary_name),
      parent_code     |-> parent,
      boundary_type   |-> boundary_type,
      boundary_level  |-> level,
      target          |-> ZeroTargets,
      total           |-> ZeroTargets,
      filename        |-> filename ]

\* the targets added to the stored values instead of replacing them
TouchTargets_accumulate(b, targets) ==
    IF b.boundary_level = max_level
    THEN [ b EXCEPT
             !.target = [i \in TargetFields |->
                           IF i \in DOMAIN targets THEN b.target[i] + targets[i]
                           ELSE b.target[i]],
             !.total  = [i \in TargetFields |->
                           IF i \in DOMAIN targets THEN b.total[i] + targets[i]
                           ELSE b.total[i]] ]
    ELSE b

\* the targets written at every level, without the test of line 216
TouchTargets_anylevel(b, targets) ==
    [ b EXCEPT
        !.target = [i \in TargetFields |->
                      IF i \in DOMAIN targets THEN targets[i]
                      ELSE IF i \in ZeroedFields THEN 0 ELSE b.target[i]],
        !.total  = [i \in TargetFields |->
                      IF i \in DOMAIN targets THEN targets[i]
                      ELSE IF i \in ZeroedFields THEN 0 ELSE b.total[i]] ]

\* lines 215-225: zero target_1..3/total_1..3, then set the row's categories
TouchTargets(b, targets) ==
    IF b.boundary_level = max_level
    THEN [ b EXCEPT
             !.target = [i \in TargetFields |->
                           IF i \in DOMAIN targets THEN targets[i]
                           ELSE IF i \in ZeroedFields THEN 0 ELSE b.target[i]],
             !.total  = [i \in TargetFields |->
                           IF i \in DOMAIN targets THEN targets[i]
                           ELSE IF i \in ZeroedFields THEN 0 ELSE b.total[i]] ]
    ELSE b

\* last writer wins: the stored spelling replaced by the spelling of the row
ReuseBoundary_lastwriter(old, boundary_name, filename) ==
    [old EXCEPT !.filename = filename,
                !.name = strip(boundary_name),
                !.name_in_english = strip(boundary_name)]

\* delete and insert again: the found row replaced by a row under a new code
ReuseBoundary_reinserted(old, boundary_name, filename) ==
    NewBoundary(old.name, old.code \o "x", old.boundary_type,
                old.boundary_level, old.parent_code, filename)

\* lines 209-210: the boundary the query found, with the filename of the row
ReuseBoundary(old, boundary_name, filename) ==
    [old EXCEPT !.filename = filename]

\* upsert_boundary (lines 177-235): the new table, the number of codes
\* minted, the code of the boundary returned and whether the call raised.
\* fault is the persistence failure the call meets: "none", "query" (line
\* 189, outside the try: the exception leaves the function) or "commit"
\* (line 228, inside the try: logged, the session keeps the old table and
\* the boundary object is returned all the same)
upsert_boundary(st, n, boundary_name, boundary_enum, previous_boundary, boundary_type, filename, targets, fault) ==
    LET matches == QueryBoundary(st, boundary_name, previous_boundary, boundary_type)
        found   == matches # {}
        old     == first(matches)
        base    == IF found
                   THEN ReuseBoundary(old, boundary_name, filename)
                   ELSE NewBoundary(boundary_name, generate_short_code(n),
                                    boundary_type,
                                    BOUNDARIES[boundary_enum].level,
                                    previous_boundary, filename)
        b       == TouchTargets(base, targets)
    IN  IF fault = "query"
        THEN [ store |-> st, next |-> n, boundary |-> "", created |-> FALSE,
               before |-> ZeroTargets, raised |-> TRUE ]
        ELSE [ store    |-> IF fault = "commit" THEN st
                            ELSE (IF found THEN st \ {old} ELSE st) \cup {b},
               next     |-> IF found THEN n ELSE n + 1,
               boundary |-> b.code,
               created  |-> ~found,
               before   |-> IF found THEN old.target ELSE ZeroTargets,
               raised   |-> FALSE ]

\* the handler of lines 229-233 with a session.rollback(): the session can
\* be used again after a failed commit
SessionAfterUpsert_rollback(fault) == "active"

\* lines 228-233: a commit that fails leaves the transaction of the session
\* rolled back by the flush and closed to further SQL; the handler logs and
\* calls no session.rollback(), so the session stays inactive
SessionAfterUpsert(fault) == IF fault = "commit" THEN "inactive" ELSE "active"

\* upsert_boundary_2 (lines 238-274): nothing is caught, so a failing query
\* (line 249), a failing insert (line 267; also when the code is stored
\* already under another name or type: primary key) or a failing filename
\* update (line 272) leaves the function as an exception
upsert_boundary_2(st, state_name, state_code, boundary_name, filename, fault) ==
    LET boundary_type == BOUNDARIES[boundary_name].name
        matches == { b \in st : /\ lower(b.name) = lower(strip(cleanup(state_name)))
                                /\ b.code = state_code
                                /\ b.boundary_type = boundary_type }
        found   == matches # {}
        old     == first(matches)
        fresh   == NewBoundary(cleanup(state_name), state_code, boundary_type,
                               BOUNDARIES[boundary_name].level,
                               BOUNDARY_1_CODE, "")
        clash   == \E b \in st : b.code = state_code
        ins     == ~found /\ fault # "query"
        insFail == ins /\ (clash \/ fault = "insert")
        st1     == IF ins /\ ~insFail THEN st \cup {fresh} ELSE st
        cur     == IF found THEN old ELSE fresh
        updFail == fault = "update"
    IN  IF fault = "query" \/ insFail
        THEN [ store |-> st, raised |-> TRUE, boundary |-> "" ]
        ELSE IF filename = ""
        THEN [ store |-> st1, raised |-> FALSE, boundary |-> cur.code ]
        ELSE [ store    |-> IF updFail THEN st1
                            ELSE (st1 \ {cur}) \cup {[cur EXCEPT !.filename = filename]},
               raised   |-> updFail,
               boundary |-> cur.code ]

(***************************************************************************)
(* Facility reconciler (utils/facility.py)                                  *)
(***************************************************************************)
\* str.replace(" ", "") and SQL replace(x, ' ', '')
RECURSIVE removeSpaces(_)
removeSpaces(s) ==
    IF s = <<>> THEN <<>>
    ELSE (IF Head(s) = " " THEN <<>> ELSE <<Head(s)>>) \o removeSpaces(Tail(s))

\* the query without the filter of line 41: boundaries of any level
MatchBoundaries_anylevel(st, facility_name, facility_type) ==
    { b \in st :
        /\ removeSpaces(lower(b.name)) = removeSpaces(lower(strip(facility_name)))
        /\ (facility_type = "LGA Facility" => b.boundary_type = BOUNDARIES[4].name) }

\* lines 38-47: the level-4 boundaries whose name matches the facility name
MatchBoundaries(st, facility_name, facility_type) ==
    { b \in st :
        /\ removeSpaces(lower(b.name)) = removeSpaces(lower(strip(facility_name)))
        /\ b.boundary_level = 4
        /\ (facility_type = "LGA Facility" => b.boundary_type = BOUNDARIES[4].name) }

\* session.query(Boundary).filter_by(code=code).first()
BoundaryByCode(st, code) == { b \in st : b.code = code }

\* the walk of lines 57-60 left after the immediate parent
Ancestors_parentonly(st, code) ==
    IF code = "" \/ code = BOUNDARY_1_CODE THEN <<>> ELSE <<code>>

\* the loop of lines 57-60 from code on, ancestors being the codes appended
\* so far: it ends at an empty code (a missing parent sets None) or at the
\* root code; a code met a second time means the loop never ends
RECURSIVE AncestorWalk(_, _, _)
AncestorWalk(st, code, ancestors) ==
    IF code = "" \/ code = BOUNDARY_1_CODE
    THEN [ancestors |-> ancestors, ends |-> TRUE]
    ELSE IF \E i \in DOMAIN ancestors : ancestors[i] = code
    THEN [ancestors |-> ancestors, ends |-> FALSE]
    ELSE AncestorWalk(st,
                      IF BoundaryByCode(st, code) # {}
                      THEN first(BoundaryByCode(st, code)).parent_code
                      ELSE "",
                      Append(ancestors, code))

\* lines 55-60: the ancestor codes from parent_code upward, root excluded
Ancestors(st, code) == AncestorWalk(st, code, <<>>).ancestors

\* ",".join(ancestors) of line 61
RECURSIVE join(_, _)
join(sep, parts) ==
    IF parts = <<>> THEN ""
    ELSE IF Len(parts) = 1 THEN parts[1]
    ELSE parts[1] \o sep \o join(sep, Tail(parts))

\* lines 64-68: the name of the boundary's parent, None when it is not stored
ParentName(st, boundary) ==
    IF boundary.parent_code # "" /\ BoundaryByCode(st, boundary.parent_code) # {}
    THEN first(BoundaryByCode(st, boundary.parent_code)).name
    ELSE None

\* lines 71-82: the stored Facility the row is taken to be
ExistingFacility(fs, st, facility_name, boundary) ==
    { f \in fs :
        /\ removeSpaces(lower(f.facility_name)) = removeSpaces(lower(strip(facility_name)))
        /\ f.boundary_code = boundary.code
        /\ f.administrative_area = ParentName(st, boundary)
        /\ \E b \in st : b.code = f.boundary_code /\ b.boundary_level = 4 }

\* the update that also takes the administrative area of the current row
UpdateFacility_remap(existing, mapping_boundary, facility_type, parent_chain, filename, target) ==
    [ existing EXCEPT !.target = target,
                      !.facility_type = facility_type,
                      !.parent_code = parent_chain,
                      !.filename = filename,
                      !.administrative_area = mapping_boundary ]

\* lines 108-111: the fields an update assigns
UpdateFacility(existing, mapping_boundary, facility_type, parent_chain, filename, target) ==
    [ existing EXCEPT !.target = target,
                      !.facility_type = facility_type,
                      !.parent_code = parent_chain,
                      !.filename = filename ]

\* an insert that replaces the stored row of the same primary key
InsertFacility_replace(fs, facility, fails) ==
    IF fails THEN fs
    ELSE { f \in fs : ~(/\ f.facility_name = facility.facility_name
                        /\ f.boundary_code = facility.boundary_code) }
         \cup {facility}

\* lines 96-106: the commit of an insert fails when the primary key
\* (facility_name, boundary_code) is stored already, or when the persistence
\* fails; the rollback of line 102 leaves the table as it was
InsertFacility(fs, facility, fails) ==
    IF fails \/ \E f \in fs : /\ f.facility_name = facility.facility_name
                               /\ f.boundary_code = facility.boundary_code
    THEN fs
    ELSE fs \cup {facility}

\* lines 84-122 for one matched boundary; fails tells whether the persistence
\* fails at the commit (line 98 or 114), which the handler rolls back
UpsertFacility(fs, st, boundary, facility_name, mapping_boundary, facility_type, filename, target, fails) ==
    LET existing == ExistingFacility(fs, st, facility_name, boundary)
        chain    == join(",", Ancestors(st, boundary.parent_code))
        fresh    == [ facility_name       |-> strip(facility_name),
                      facility_type       |-> facility_type,
                      boundary_code       |-> boundary.code,
                      administrative_area |-> mapping_boundary,
                      parent_code         |-> chain,
                      target              |-> target,
                      filename            |-> filename ]
        old      == first(existing)
    IN  IF existing = {}
        THEN InsertFacility(fs, fresh, fails)
        ELSE IF fails THEN fs
        ELSE (fs \ {old}) \cup
             { UpdateFacility(old, mapping_boundary, facility_type, chain,
                              filename, target) }

\* first match only: the loop of line 52 left after one boundary
FacilityLoop_firstmatch(todo, fs, st, facility_name, mapping_boundary, facility_type, filename, target, failing) ==
    IF todo = {} THEN fs
    ELSE UpsertFacility(fs, st, first(todo), facility_name, mapping_boundary,
                        facility_type, filename, target,
                        first(todo).code \in failing)

\* the loop of line 52 over the matches still to process; failing holds the
\* codes of the boundaries at whose commit the persistence fails
RECURSIVE FacilityLoop(_, _, _, _, _, _, _, _, _)
FacilityLoop(todo, fs, st, facility_name, mapping_boundary, facility_type, filename, target, failing) ==
    IF todo = {} THEN fs
    ELSE LET b == first(todo)
         IN  FacilityLoop(todo \ {b},
                 UpsertFacility(fs, st, b, facility_name, mapping_boundary,
                                facility_type, filename, target,
                                b.code \in failing),
                 st, facility_name, mapping_boundary,
                 facility_type, filename, target, failing)

\* create_health_facility over a persistence that works: the new facilities
\* table
create_health_facility(fs, st, facility_name, mapping_boundary, facility_type, filename, target) ==
    FacilityLoop(MatchBoundaries(st, facility_name, facility_type), fs, st,
                 facility_name, mapping_boundary, facility_type, filename, target,
                 {})

(***************************************************************************)
(* Inputs: what openpyxl hands to run_transform                             *)
(***************************************************************************)
Filenames == { "b1.xlsx" }

FacilityFilenames == { "h1.xlsx" }

SheetStates == { "visible", "hidden" }

Workbooks == UNION { [1..n -> SheetStates] : n \in 1..MaxSheets }

LevelCells == { k \in BoundaryKeys : BOUNDARIES[k].level >= 3 }

TargetCells == { [i \in TARGET_COLUMNS |-> 5],
                 [i \in TARGET_COLUMNS |-> IF i = 3 THEN 9 ELSE 5] }

FacilityNames == { <<"a">>, <<"A", " ">>, <<"c">> }

Mappings == { <<"a">> }

\* a data row: the hierarchy cells (columns C, D, ...) and the target cells
BoundaryRows ==
    { r \in [ cells : [LevelCells -> UNION { NamesAt(BOUNDARIES[k].level) : k \in LevelCells }
                                       \cup {None}],
              tcells : TargetCells ] :
        \A k \in LevelCells :
           r.cells[k] \in NamesAt(BOUNDARIES[k].level) \cup {None} }

\* lines 101-107: the targets dict of the row
RowTargets(r) ==
    IF \E k \in BoundaryKeys :
          /\ BOUNDARIES[k].level >= max_level
          /\ k \in LevelCells
          /\ r.cells[k] # None
    THEN r.tcells
    ELSE NoTargets

\* the rows of a free-running sheet: the target cells vary where line 101
\* reads them
SheetNamesAt(level) == IF level = 3 THEN NamesAt(3) ELSE { <<" ", "A", " ">> }

SheetRows ==
    { r \in BoundaryRows :
        /\ \A k \in LevelCells :
              r.cells[k] \in SheetNamesAt(BOUNDARIES[k].level) \cup {None}
        /\ RowTargets(r) = NoTargets => r.tcells = [i \in TARGET_COLUMNS |-> 5] }

\* the rows of a scripted batch: one filling of the target cells
ScriptRows == { r \in BoundaryRows : r.tcells = [i \in TARGET_COLUMNS |-> 5] }

\* the facility rows of a scripted batch: both cells filled
ScriptFacilityRows == [ fac_name : FacilityNames, mapping : Mappings ]

\* a row past ws.max_row: every cell is empty
BlankRow == [ cells  |-> [k \in LevelCells |-> None],
              tcells |-> [i \in TARGET_COLUMNS |-> 0] ]

\* a facility row: columns A (name) and C (administrative area)
FacilityRows == [ fac_name : FacilityNames \cup {None},
                  mapping  : Mappings \cup {None} ]

\* the persistence failure one boundary row may meet: none, or one kind of
\* failure in the upsert of one level
NoFault == [key |-> 0, kind |-> "none"]

RowFaults == {NoFault} \cup [key : LevelCells, kind : {"query", "commit"}]

FileFaults == {"none", "query", "insert", "update"}

\* a scripted batch: one boundary workbook and one facility workbook of the
\* same worksheets, each visible sheet holding the rows below the header row
NoScript == [brows |-> <<>>, frows |-> <<>>, wb |-> <<>>, on |-> FALSE]

\* the batches of one visible sheet per workbook
ScriptsOf(nb, nf) ==
    { [brows |-> b, frows |-> f, wb |-> <<"visible">>, on |-> TRUE] :
        b \in UNION { [1..n -> ScriptRows] : n \in 0..nb },
        f \in UNION { [1..n -> ScriptFacilityRows] : n \in 0..nf } }

Scripts == ScriptsOf(MaxScriptRows, MaxScriptFacilities)

FaultScripts == ScriptsOf(MaxFaultRows, MaxScriptFacilities)

\* the targets mappings of a direct call of upsert_boundary
CallTargets == { NoTargets,
                 [i \in {4} |-> 7],
                 [i \in TARGET_COLUMNS |-> 5] }

\* every worksheet taken, whatever its sheet_state
get_visible_sheets_all(worksheets, i) == [j \in 1..Len(worksheets) |-> j]

\* get_visible_sheets (utils/common.py): the visible sheets, in workbook order
RECURSIVE get_visible_sheets(_, _)
get_visible_sheets(worksheets, i) ==
    IF i > Len(worksheets) THEN <<>>
    ELSE (IF worksheets[i] = "visible" THEN <<i>> ELSE <<>>)
         \o get_visible_sheets(worksheets, i + 1)

(***************************************************************************)
(* run_transform (transform.py): one boundary row, lines 99-120             *)
(***************************************************************************)
\* lines 110-120 from key k on; acc carries the table, the minted codes, the
\* boundaries dict, the state of the session, the upserts made and the
\* exception that ended the row.  On an inactive session the query of
\* upsert_boundary (boundary.py:189) raises.
RECURSIVE RowLoop(_, _, _, _, _)
RowLoop(k, r, filename, fault, acc) ==
    IF k > Len(BOUNDARIES) \/ acc.exc # "" THEN acc
    ELSE IF BOUNDARIES[k].level >= 3 /\ r.cells[k] # None
    THEN LET prev_key == get_boundary_name(BOUNDARIES[k].level - 1)
             kind     == IF acc.session = "inactive" THEN "query"
                         ELSE IF fault.key = k THEN fault.kind ELSE "none"
         IN  IF prev_key \notin DOMAIN acc.boundaries
             THEN [acc EXCEPT !.exc = "KeyError"]
             ELSE LET u == upsert_boundary(acc.store, acc.next,
                                cleanup(r.cells[k]), k,
                                acc.boundaries[prev_key],
                                BOUNDARIES[k].name, filename, RowTargets(r),
                                kind)
                  IN  IF u.raised
                      THEN [acc EXCEPT !.exc = "PersistenceError"]
                      ELSE RowLoop(k + 1, r, filename, fault,
                             [ store      |-> u.store,
                               next       |-> u.next,
                               session    |-> SessionAfterUpsert(kind),
                               boundaries |-> [j \in DOMAIN acc.boundaries \cup {k} |->
                                                 IF j = k THEN u.boundary
                                                 ELSE acc.boundaries[j]],
                               upserts    |-> acc.upserts \cup
                                                {[ key     |-> k,
                                                   parent  |-> acc.boundaries[prev_key],
                                                   code    |-> u.boundary,
                                                   created |-> u.created,
                                                   before  |-> u.before ]},
                               exc        |-> "" ])
    ELSE RowLoop(k + 1, r, filename, fault, acc)

NoRow == [ cells |-> <<>>, targets |-> NoTargets, upserts |-> {} ]

NoResult == [boundaries_count |-> -1, facilities_count |-> -1]

NoCall == [ routine |-> "", name |-> <<>>, key |-> 0, parent |-> "",
            targets |-> NoTargets, code |-> "", created |-> FALSE ]

NoSnapshot == [store |-> {}, facilities |-> {}, exc |-> ""]

\* two ingestion runs against one store
Procs == { 1, 2 }

\* no read_excel call under way
NoExcel == [ on |-> FALSE ]

\* no upsert_boundary call under way
NoInflight == [ p \in Procs |->
                  [ at |-> "idle", name |-> <<>>, key |-> 0, parent |-> "",
                    found |-> "", code |-> "", calls |-> 0 ] ]

(***************************************************************************)
(* run_transform: the pipeline                                              *)
(***************************************************************************)
InitPipeline ==
    /\ store = {}
    /\ facilities = {}
    /\ nextCode = 0
    /\ pc = "idle"
    /\ boundaries = <<>>
    /\ fpath = ""
    /\ sheets = <<>>
    /\ si = 0
    /\ last_row = 0
    /\ row = 0
    /\ result = NoResult
    /\ exc = ""
    /\ rowlog = NoRow
    /\ call = NoCall
    /\ runs = 0
    /\ snapshot = NoSnapshot
    /\ inflight = NoInflight
    /\ wb = <<>>
    /\ session = "active"
    /\ excel = NoExcel

\* an empty store, inputs drawn as they are read, a persistence that works
Init ==
    /\ InitPipeline
    /\ faults = 0
    /\ script = NoScript

\* the inputs each step may read: anything when no batch is scripted, else
\* what the script holds at that place
BoundaryFileInputs ==
    IF script.on
    THEN (IF fpath = "" THEN {<<"b1.xlsx", script.wb>>} ELSE {})
    ELSE Filenames \X Workbooks

FacilityFileInputs ==
    IF script.on
    THEN (IF fpath \notin FacilityFilenames THEN {<<"h1.xlsx", script.wb>>} ELSE {})
    ELSE FacilityFilenames \X Workbooks

MaxRowInputs(rows) == IF script.on THEN {Len(rows) + 1} ELSE 1..MaxRow

BoundaryRowInputs(i) ==
    IF i > last_row THEN {BlankRow}
    ELSE IF script.on THEN {script.brows[i - START_BOUNDARIES_ROW]}
    ELSE SheetRows

FacilityRowInputs(i) ==
    IF script.on THEN {script.frows[i - FACILITY_START_ROW]} ELSE FacilityRows

\* lines 28-74: a call of run_transform, up to the first boundary file
StartRun ==
    /\ pc \in {"idle", "raised"}
    /\ script.on => runs < 2
    /\ pc' = "boundary_files"
    /\ boundaries' = [k \in {1} |-> BOUNDARY_1_CODE]
    /\ fpath' = ""
    /\ sheets' = <<>>
    /\ wb' = <<>>
    /\ si' = 0
    /\ last_row' = 0
    /\ row' = 0
    /\ rowlog' = NoRow
    /\ result' = NoResult
    /\ exc' = ""
    /\ runs' = IF script.on THEN runs + 1 ELSE runs
    /\ snapshot' = IF script.on /\ runs = 1
                   THEN [store |-> store, facilities |-> facilities, exc |-> exc]
                   ELSE snapshot
    /\ UNCHANGED <<store, facilities, nextCode, call, faults, script,
                   inflight>>
    /\ session' = "active"
    /\ UNCHANGED excel

\* lines 77-86: load the next boundary file and seed the second level; on an
\* inactive session the query of upsert_boundary_2 raises
LoadBoundaryFile ==
    /\ pc = "boundary_files"
    /\ \E in \in BoundaryFileInputs,
          fault \in (IF session = "inactive" THEN {"query"}
                    ELSE IF faults > 0 THEN FileFaults ELSE {"none"}) :
         LET u == upsert_boundary_2(store, BOUNDARY_2_NAME, BOUNDARY_2_CODE,
                                    2, in[1], fault)
         IN  /\ fpath' = in[1]
             /\ store' = u.store
             /\ faults' = IF fault = "none" \/ session = "inactive"
                          THEN faults ELSE faults - 1
             /\ IF u.raised
                THEN /\ pc' = "raised"
                     /\ exc' = "PersistenceError"
                     /\ UNCHANGED <<boundaries, wb, sheets, si>>
                ELSE /\ pc' = "boundary_sheets"
                     /\ exc' = ""
                     /\ wb' = in[2]
                     /\ sheets' = get_visible_sheets(in[2], 1)
                     /\ si' = 1
                     /\ boundaries' =
                          [j \in DOMAIN boundaries \cup {2} |->
                             IF j = 2 THEN u.boundary ELSE boundaries[j]]
    /\ UNCHANGED <<facilities, nextCode, last_row, row, rowlog, result,
                   call, script, runs, snapshot, inflight, session, excel>>

\* lines 88-93: the next visible sheet
StartBoundarySheet ==
    /\ pc = "boundary_sheets"
    /\ si <= Len(sheets)
    /\ \E max_row \in MaxRowInputs(script.brows) : last_row' = max_row
    /\ row' = START_BOUNDARIES_ROW
    /\ pc' = "boundary_rows"
    /\ UNCHANGED <<store, facilities, nextCode, boundaries, fpath,
                   sheets, si, rowlog, result, exc,
                   call, faults, script, runs, snapshot, inflight, wb, session, excel>>

\* lines 94-120: one iteration of the row loop
ProcessBoundaryRow ==
    /\ pc = "boundary_rows"
    /\ row < last_row + 1
    /\ row' = row + 1
    /\ \E r \in BoundaryRowInputs(row + 1),
          fault \in (IF faults > 0 THEN RowFaults ELSE {NoFault}) :
         LET out == RowLoop(1, r, fpath, fault,
                      [ store |-> store, next |-> nextCode,
                        boundaries |-> boundaries, upserts |-> {},
                        session |-> session, exc |-> "" ])
         IN  /\ out.next <= MaxCodes
             /\ faults' = IF fault = NoFault THEN faults ELSE faults - 1
             /\ store' = out.store
             /\ nextCode' = out.next
             /\ boundaries' = out.boundaries
             /\ rowlog' = [ cells |-> r.cells, targets |-> RowTargets(r),
                            upserts |-> out.upserts ]
             /\ session' = out.session
             /\ exc' = out.exc
             /\ pc' = IF out.exc # "" THEN "raised" ELSE "boundary_rows"
    /\ UNCHANGED <<facilities, fpath, sheets, si, last_row, result,
                   call, script, runs, snapshot, inflight, wb, excel>>

\* line 94 false: the sheet is exhausted
EndBoundarySheet ==
    /\ pc = "boundary_rows"
    /\ ~(row < last_row + 1)
    /\ si' = si + 1
    /\ pc' = "boundary_sheets"
    /\ last_row' = 0             \* the loop variables are dead past the loop
    /\ row' = 0
    /\ rowlog' = NoRow
    /\ UNCHANGED <<store, facilities, nextCode, boundaries, fpath,
                   sheets, result, exc,
                   call, faults, script, runs, snapshot, inflight, wb, session, excel>>

\* line 88 exhausted: back to the file loop
EndBoundaryFile ==
    /\ pc = "boundary_sheets"
    /\ si > Len(sheets)
    /\ pc' = "boundary_files"
    /\ sheets' = <<>>            \* the workbook is dead past the loop
    /\ wb' = <<>>
    /\ si' = 0
    /\ UNCHANGED <<store, facilities, nextCode, boundaries, fpath,
                   last_row, row, rowlog, result, exc,
                   call, faults, script, runs, snapshot, inflight, session, excel>>

\* lines 122-127: every boundary file is done, on to the facility files
StartFacilities ==
    /\ pc = "boundary_files"
    /\ script.on => fpath # ""
    /\ pc' = "facility_files"
    /\ boundaries' = <<>>        \* the dict is not read after line 120
    /\ rowlog' = NoRow
    /\ UNCHANGED <<store, facilities, nextCode, fpath,
                   sheets, si, last_row, row, result, exc,
                   call, faults, script, runs, snapshot, inflight, wb, session, excel>>

\* lines 130-134: load the next facility file
LoadFacilityFile ==
    /\ pc = "facility_files"
    /\ \E in \in FacilityFileInputs :
         /\ fpath' = in[1]
         /\ wb' = in[2]
         /\ sheets' = get_visible_sheets(in[2], 1)
    /\ si' = 1
    /\ pc' = "facility_sheets"
    /\ UNCHANGED <<store, facilities, nextCode, boundaries, last_row, row,
                   rowlog, result, exc, call, faults, script, runs, snapshot,
                   inflight, session, excel>>

\* lines 136-139: the next visible sheet; range() reads ws.max_row once
StartFacilitySheet ==
    /\ pc = "facility_sheets"
    /\ si <= Len(sheets)
    /\ \E max_row \in MaxRowInputs(script.frows) : last_row' = max_row
    /\ row' = FACILITY_START_ROW
    /\ pc' = "facility_rows"
    /\ UNCHANGED <<store, facilities, nextCode, boundaries, fpath,
                   sheets, si, rowlog, result, exc,
                   call, faults, script, runs, snapshot, inflight, wb, session, excel>>

\* lines 139-155: one facility row; on an inactive session the query of
\* create_health_facility (facility.py:38-47) raises
ProcessFacilityRow ==
    /\ pc = "facility_rows"
    /\ row + 1 < last_row + 1
    /\ row' = row + 1
    /\ \E r \in FacilityRowInputs(row + 1) :
         IF r.fac_name \in {None, <<>>} \/ r.mapping \in {None, <<>>}
         THEN UNCHANGED <<facilities, pc, exc>>
         ELSE IF session = "inactive"
         THEN /\ pc' = "raised"
              /\ exc' = "PersistenceError"
              /\ UNCHANGED facilities
         ELSE /\ facilities' =
                   create_health_facility(facilities, store, r.fac_name,
                                          r.mapping, "Health Facility", fpath, 0)
              /\ UNCHANGED <<pc, exc>>
    /\ UNCHANGED <<store, nextCode, boundaries, fpath, sheets, si,
                   last_row, rowlog, result,
                   call, faults, script, runs, snapshot, inflight, wb, session, excel>>

\* the range of line 139 is exhausted
EndFacilitySheet ==
    /\ pc = "facility_rows"
    /\ ~(row + 1 < last_row + 1)
    /\ si' = si + 1
    /\ pc' = "facility_sheets"
    /\ last_row' = 0             \* the loop variables are dead past the loop
    /\ row' = 0
    /\ UNCHANGED <<store, facilities, nextCode, boundaries, fpath,
                   sheets, rowlog, result, exc,
                   call, faults, script, runs, snapshot, inflight, wb, session, excel>>

\* files taken in turn: after a facility file, back to the boundary files
EndFacilityFile_interleaved ==
    /\ pc = "facility_sheets"
    /\ si > Len(sheets)
    /\ pc' = "boundary_files"
    /\ sheets' = <<>>
    /\ wb' = <<>>
    /\ si' = 0
    /\ boundaries' = [k \in {1} |-> BOUNDARY_1_CODE]
    /\ UNCHANGED <<store, facilities, nextCode, fpath,
                   last_row, row, rowlog, result, exc,
                   call, faults, script, runs, snapshot, inflight, session, excel>>

\* line 136 exhausted: back to the file loop
EndFacilityFile ==
    /\ pc = "facility_sheets"
    /\ si > Len(sheets)
    /\ pc' = "facility_files"
    /\ sheets' = <<>>            \* the workbook is dead past the loop
    /\ wb' = <<>>
    /\ si' = 0
    /\ UNCHANGED <<store, facilities, nextCode, boundaries, fpath,
                   last_row, row, rowlog, result, exc,
                   call, faults, script, runs, snapshot, inflight, session, excel>>

\* lines 157-171: count both tables and return; on an inactive session the
\* count of line 159 raises
Finish ==
    /\ pc = "facility_files"
    /\ script.on => fpath \in FacilityFilenames
    /\ IF session = "inactive"
       THEN /\ pc' = "raised"
            /\ exc' = "PersistenceError"
            /\ UNCHANGED result
       ELSE /\ pc' = "idle"
            /\ result' = [ boundaries_count |-> Cardinality(store),
                           facilities_count |-> Cardinality(facilities) ]
            /\ UNCHANGED exc
    /\ fpath' = ""
    /\ sheets' = <<>>
    /\ wb' = <<>>
    /\ si' = 0
    /\ last_row' = 0
    /\ row' = 0
    /\ UNCHANGED <<store, facilities, nextCode, boundaries, rowlog,
                   call, faults, script, runs, snapshot, inflight, session, excel>>

Next ==
    \/ StartRun
    \/ LoadBoundaryFile
    \/ StartBoundarySheet
    \/ ProcessBoundaryRow
    \/ EndBoundarySheet
    \/ EndBoundaryFile
    \/ StartFacilities
    \/ LoadFacilityFile
    \/ StartFacilitySheet
    \/ ProcessFacilityRow
    \/ EndFacilitySheet
    \/ EndFacilityFile
    \/ Finish

Spec == Init /\ [][Next]_vars

(***************************************************************************)
(* The same pipeline run twice on one scripted batch                        *)
(***************************************************************************)
InitIdem ==
    /\ InitPipeline
    /\ faults = 0
    /\ script \in Scripts

SpecIdem == InitIdem /\ [][Next]_vars

(***************************************************************************)
(* A scripted batch over a persistence whose queries and commits may fail   *)
(***************************************************************************)
InitFail ==
    /\ InitPipeline
    /\ faults = MaxFaults
    /\ script \in FaultScripts

SpecFail == InitFail /\ [][Next]_vars

(***************************************************************************)
(* The upsert routines called one after the other, outside any run          *)
(***************************************************************************)
\* upsert_boundary on any name, level, stored parent of the level above and
\* targets mapping
CallUpsertBoundary ==
    /\ pc = "idle"
    /\ \E k \in LevelCells, targets \in CallTargets :
       \E boundary_name \in NamesAt(BOUNDARIES[k].level),
          p \in { b \in store : b.boundary_level = BOUNDARIES[k].level - 1 } :
         LET u == upsert_boundary(store, nextCode, boundary_name, k, p.code,
                                  BOUNDARIES[k].name, "call.xlsx", targets, "none")
         IN  /\ u.next <= MaxCodes
             /\ store' = u.store
             /\ nextCode' = u.next
             /\ call' = [ routine |-> "upsert_boundary", name |-> boundary_name,
                          key |-> k, parent |-> p.code, targets |-> targets,
                          code |-> u.boundary, created |-> u.created ]
    /\ UNCHANGED <<facilities, pc, boundaries, fpath, sheets, si, last_row,
                   row, result, exc, rowlog, faults, script, runs, snapshot, inflight, wb, session, excel>>

\* upsert_boundary_2 on the configured province, as run_transform calls it
CallUpsertBoundary2 ==
    /\ pc = "idle"
    /\ LET u == upsert_boundary_2(store, BOUNDARY_2_NAME, BOUNDARY_2_CODE, 2,
                                  "call.xlsx", "none")
       IN  /\ ~u.raised
           /\ store' = u.store
           /\ call' = [ NoCall EXCEPT !.routine = "upsert_boundary_2",
                                      !.name = BOUNDARY_2_NAME, !.key = 2,
                                      !.parent = BOUNDARY_1_CODE,
                                      !.code = u.boundary ]
    /\ UNCHANGED <<facilities, nextCode, pc, boundaries, fpath, sheets, si,
                   last_row, row, result, exc, rowlog, faults, script, runs,
                   snapshot, inflight, wb, session, excel>>

NextUpsert ==
    \/ CallUpsertBoundary
    \/ CallUpsertBoundary2

SpecUpsert == Init /\ [][NextUpsert]_vars

(***************************************************************************)
(* The province seeded under the code of each run's configuration           *)
(***************************************************************************)
\* BOUNDARY_2_CODE as TransformConfig.from_notebook sets it: the code the
\* user supplies, or a code minted for the run when none is supplied
ProvinceCodes == { BOUNDARY_2_CODE, "p2" }

\* BOUNDARY_2_NAME as the user types it from one run to the next
ProvinceNames == { BOUNDARY_2_NAME, <<" ", "n">> }

\* str(fpath) of the boundary file; "" stands for a filename that is falsy
\* at line 269
SeedFilenames == { "", "b1.xlsx", "b2.xlsx" }

\* upsert_boundary_2 as line 83 calls it under the configuration of a run
CallSeedProvince ==
    /\ pc = "idle"
    /\ \E state_code \in ProvinceCodes, state_name \in ProvinceNames,
          filename \in SeedFilenames :
         LET u == upsert_boundary_2(store, state_name, state_code, 2,
                                    filename, "none")
         IN  /\ store' = u.store
             /\ call' = [ NoCall EXCEPT !.routine = "upsert_boundary_2",
                                        !.name = state_name, !.key = 2,
                                        !.parent = BOUNDARY_1_CODE,
                                        !.code = state_code,
                                        !.created = u.store # store /\
                                            Cardinality(u.store) > Cardinality(store) ]
    /\ UNCHANGED <<facilities, nextCode, pc, boundaries, fpath, sheets, si,
                   last_row, row, result, exc, rowlog, faults, script, runs,
                   snapshot, inflight, wb, session, excel>>

NextSeed == CallSeedProvince

SpecSeed == Init /\ [][NextSeed]_vars

(***************************************************************************)
(* One uninterrupted run of a scripted batch, as a function of the store    *)
(***************************************************************************)
\* lines 94-120 over the rows of the sheet from row i on
RECURSIVE RowsFrom(_, _, _, _)
RowsFrom(i, brows, filename, acc) ==
    IF i > Len(brows) \/ acc.exc # "" THEN acc
    ELSE RowsFrom(i + 1, brows, filename,
                  RowLoop(1, brows[i], filename, NoFault,
                          [acc EXCEPT !.upserts = {}]))

\* lines 64-120 for one boundary file of one visible sheet
BoundaryPhase(st, n, brows, filename) ==
    LET u == upsert_boundary_2(st, BOUNDARY_2_NAME, BOUNDARY_2_CODE, 2,
                               filename, "none")
    IN  IF u.raised
        THEN [ store |-> st, next |-> n, boundaries |-> <<BOUNDARY_1_CODE>>,
               upserts |-> {}, session |-> "active",
               exc |-> "PersistenceError" ]
        ELSE RowsFrom(1, brows, filename,
                      [ store |-> u.store, next |-> n,
                        boundaries |-> <<BOUNDARY_1_CODE, u.boundary>>,
                        upserts |-> {}, session |-> "active", exc |-> "" ])

\* lines 130-155 for one facility file of one visible sheet, from row i on
RECURSIVE FacilityPhase(_, _, _, _, _)
FacilityPhase(i, frows, fs, st, filename) ==
    IF i > Len(frows) THEN fs
    ELSE FacilityPhase(i + 1, frows,
             IF frows[i].fac_name \in {None, <<>>} \/ frows[i].mapping \in {None, <<>>}
             THEN fs
             ELSE create_health_facility(fs, st, frows[i].fac_name,
                                         frows[i].mapping, "Health Facility",
                                         filename, 0),
             st, filename)

\* run_transform on the batch of a script: the tables and the counts it
\* returns, or the exception it ends with
RunBatch(st, fs, n, scr) ==
    LET b  == BoundaryPhase(st, n, scr.brows, "b1.xlsx")
        f  == FacilityPhase(1, scr.frows, fs, b.store, "h1.xlsx")
    IN  IF b.exc # ""
        THEN [ store |-> b.store, facilities |-> fs, next |-> b.next,
               exc |-> b.exc, result |-> NoResult ]
        ELSE [ store |-> b.store, facilities |-> f, next |-> b.next,
               exc |-> "",
               result |-> [ boundaries_count |-> Cardinality(b.store),
                            facilities_count |-> Cardinality(f) ] ]

(***************************************************************************)
(* create_health_facility called on the stores boundary files leave         *)
(***************************************************************************)
\* the administrative-area text of a call: the name of a district, or a text
\* no boundary carries
CallMappings == { <<"a">>, <<"z">> }

\* facility_type, target and filename of a call
CallProfiles ==
    { [ facility_type |-> "Health Facility", target |-> 0, filename |-> "h1.xlsx" ],
      [ facility_type |-> "LGA Facility", target |-> 7, filename |-> "h2.xlsx" ] }

\* the Boundary table after one boundary file, no Facility stored yet
InitFacilityTables ==
    /\ \E brows \in UNION { [1..n -> ScriptRows] : n \in 0..MaxScriptRows } :
         LET b == BoundaryPhase({}, 0, brows, "b1.xlsx")
         IN  /\ b.exc = ""
             /\ store = b.store
             /\ nextCode = b.next
    /\ facilities = {}
    /\ pc = "idle"
    /\ boundaries = <<>>
    /\ fpath = ""
    /\ sheets = <<>>
    /\ si = 0
    /\ last_row = 0
    /\ row = 0
    /\ result = NoResult
    /\ exc = ""
    /\ rowlog = NoRow
    /\ call = NoCall
    /\ runs = 0
    /\ snapshot = NoSnapshot
    /\ inflight = NoInflight
    /\ wb = <<>>
    /\ session = "active"
    /\ excel = NoExcel
    /\ script = NoScript

\* a persistence that works
InitFacility ==
    /\ InitFacilityTables
    /\ faults = 0

\* create_health_facility (lines 15-122) on any name, administrative area,
\* type, target and filename; one warning is logged at line 49
CallCreateFacility ==
    /\ pc = "idle"
    /\ \E facility_name \in FacilityNames, mapping_boundary \in CallMappings,
          p \in CallProfiles :
         /\ facilities' = create_health_facility(facilities, store, facility_name,
                              mapping_boundary, p.facility_type, p.filename,
                              p.target)
         /\ call' = [ routine       |-> "create_health_facility",
                      facility_name |-> facility_name,
                      mapping       |-> mapping_boundary,
                      facility_type |-> p.facility_type,
                      target        |-> p.target,
                      filename      |-> p.filename,
                      failing       |-> {},
                      warnings      |-> IF MatchBoundaries(store, facility_name,
                                                           p.facility_type) = {}
                                        THEN 1 ELSE 0 ]
    /\ UNCHANGED <<store, nextCode, pc, boundaries, fpath, sheets, si,
                   last_row, row, result, exc, rowlog, faults, script, runs,
                   snapshot, inflight, wb, session, excel>>

NextFacility == CallCreateFacility

SpecFacility == InitFacility /\ [][NextFacility]_vars

(***************************************************************************)
(* create_health_facility over a persistence whose commits may fail         *)
(***************************************************************************)
\* the call during which the persistence fails: the commit fails for some of
\* the matched boundaries
CallCreateFacilityFailing ==
    /\ pc = "idle"
    /\ \E facility_name \in FacilityNames, mapping_boundary \in CallMappings,
          p \in CallProfiles :
       \E failing \in SUBSET { b.code : b \in MatchBoundaries(store, facility_name,
                                                             p.facility_type) } :
         /\ failing # {}
         /\ Cardinality(failing) <= faults
         /\ faults' = 0
         /\ facilities' = FacilityLoop(MatchBoundaries(store, facility_name,
                                                       p.facility_type),
                              facilities, store, facility_name, mapping_boundary,
                              p.facility_type, p.filename, p.target, failing)
         /\ call' = [ routine       |-> "create_health_facility",
                      facility_name |-> facility_name,
                      mapping       |-> mapping_boundary,
                      facility_type |-> p.facility_type,
                      target        |-> p.target,
                      filename      |-> p.filename,
                      failing       |-> failing,
                      warnings      |-> 0 ]
    /\ UNCHANGED <<store, nextCode, pc, boundaries, fpath, sheets, si,
                   last_row, row, result, exc, rowlog, script, runs,
                   snapshot, inflight, wb, session, excel>>

\* calls over a persistence that works, up to the call during which it fails
NextFacilityFail ==
    \/ faults > 0 /\ CallCreateFacility
    \/ CallCreateFacilityFailing

\* the Boundary tables in which a facility row can match several boundaries
InitFacilityFail ==
    /\ InitFacilityTables
    /\ Cardinality({ b \in store : b.boundary_level = 4 }) >= 2
    /\ faults = MaxFaults

SpecFacilityFail == InitFacilityFail /\ [][NextFacilityFail]_vars

(***************************************************************************)
(* A scripted batch whose first run is interrupted, then run again          *)
(***************************************************************************)
\* the batches of the interrupted run: rows as a sheet spells them
CrashScripts == { s \in Scripts : \A i \in DOMAIN s.brows : s.brows[i] \in SheetRows }

InitCrash ==
    /\ InitPipeline
    /\ faults = 0
    /\ script \in CrashScripts

ProcessKilled ==
    /\ pc' = "raised"
    /\ exc' = "Interrupted"
    /\ UNCHANGED <<boundaries, fpath, sheets, si, last_row, row, result,
                   rowlog, call, faults, script, runs, snapshot, inflight, wb, session, excel>>

\* the process dies between two steps of the first run
Interrupt ==
    /\ runs = 1
    /\ pc \in { "boundary_files", "boundary_sheets", "boundary_rows",
                "facility_files", "facility_sheets", "facility_rows" }
    /\ ProcessKilled
    /\ UNCHANGED <<store, facilities, nextCode>>

\* the process dies in upsert_boundary_2 between the commit of line 267 and
\* the commit of line 272
InterruptSeed ==
    /\ runs = 1
    /\ pc = "boundary_files"
    /\ \E in \in BoundaryFileInputs :
         store' = upsert_boundary_2(store, BOUNDARY_2_NAME, BOUNDARY_2_CODE,
                                    2, in[1], "update").store
    /\ ProcessKilled
    /\ UNCHANGED <<facilities, nextCode>>

\* the process dies in a boundary row, after the commits of the levels above
\* level k and before the query of level k
InterruptBoundaryRow ==
    /\ runs = 1
    /\ pc = "boundary_rows"
    /\ row < last_row + 1
    /\ \E r \in BoundaryRowInputs(row + 1), k \in LevelCells :
         LET out == RowLoop(1, r, fpath, [key |-> k, kind |-> "query"],
                      [ store |-> store, next |-> nextCode,
                        boundaries |-> boundaries, upserts |-> {},
                        session |-> session, exc |-> "" ])
         IN  /\ out.exc = "PersistenceError"
             /\ store' = out.store
             /\ nextCode' = out.next
    /\ ProcessKilled
    /\ UNCHANGED facilities

\* the process dies in create_health_facility, after the commits for some of
\* the matched boundaries (q.all() returns them in any order)
InterruptFacilityRow ==
    /\ runs = 1
    /\ pc = "facility_rows"
    /\ row + 1 < last_row + 1
    /\ \E r \in FacilityRowInputs(row + 1) :
         /\ r.fac_name \notin {None, <<>>}
         /\ r.mapping \notin {None, <<>>}
         /\ \E done \in SUBSET MatchBoundaries(store, r.fac_name, "Health Facility") :
              /\ done # {}
              /\ facilities' = FacilityLoop(done, facilities, store, r.fac_name,
                                   r.mapping, "Health Facility", fpath, 0, {})
    /\ ProcessKilled
    /\ UNCHANGED <<store, nextCode>>

NextCrash ==
    \/ Next
    \/ Interrupt
    \/ InterruptSeed
    \/ InterruptBoundaryRow
    \/ InterruptFacilityRow

SpecCrash == InitCrash /\ [][NextCrash]_vars

(***************************************************************************)
(* Two runs in upsert_boundary against one store, no lock                   *)
(***************************************************************************)
\* the write of lines 196-228 decides again at commit time: an atomic upsert
boundary_requeried(st, c) ==
    LET m == QueryBoundary(st, c.name, c.parent, BOUNDARIES[c.key].name)
    IN  IF m = {} THEN "" ELSE first(m).code

\* the local variable boundary at line 197: what the query of line 189
\* returned to this run, "" for None
boundary_after_query(st, c) == c.found

\* the Boundary table after the seeding of line 83, no upsert under way
InitRace ==
    /\ store = upsert_boundary_2({}, BOUNDARY_2_NAME, BOUNDARY_2_CODE, 2,
                                 "call.xlsx", "none").store
    /\ facilities = {}
    /\ nextCode = 0
    /\ pc = "idle"
    /\ boundaries = <<>>
    /\ fpath = ""
    /\ sheets = <<>>
    /\ si = 0
    /\ last_row = 0
    /\ row = 0
    /\ result = NoResult
    /\ exc = ""
    /\ rowlog = NoRow
    /\ call = NoCall
    /\ runs = 0
    /\ snapshot = NoSnapshot
    /\ inflight = NoInflight
    /\ wb = <<>>
    /\ session = "active"
    /\ excel = NoExcel
    /\ faults = 0
    /\ script = NoScript

\* lines 186-194 in run p: the query
RaceQuery(p) ==
    /\ inflight[p].at \in {"idle", "done"}
    /\ inflight[p].calls < MaxRaceCalls
    /\ \E k \in LevelCells :
       \E boundary_name \in NamesAt(BOUNDARIES[k].level),
          par \in { b \in store : b.boundary_level = BOUNDARIES[k].level - 1 } :
         LET m == QueryBoundary(store, boundary_name, par.code, BOUNDARIES[k].name)
         IN  inflight' = [inflight EXCEPT ![p] =
                            [ at |-> "queried", name |-> boundary_name,
                              key |-> k, parent |-> par.code,
                              found |-> IF m = {} THEN "" ELSE first(m).code,
                              code |-> "", calls |-> inflight[p].calls + 1 ]]
    /\ UNCHANGED <<store, facilities, nextCode, pc, boundaries, fpath, sheets,
                   si, last_row, row, result, exc, rowlog, call, faults,
                   script, runs, snapshot, wb, session, excel>>

\* lines 196-228 in run p: build or touch the boundary and commit
RaceWrite(p) ==
    /\ inflight[p].at = "queried"
    /\ LET c     == inflight[p]
           held  == boundary_after_query(store, c)
           found == held # ""
           old   == first(BoundaryByCode(store, held))
           base  == IF found
                    THEN [old EXCEPT !.filename = "call.xlsx"]
                    ELSE NewBoundary(c.name, generate_short_code(nextCode),
                                     BOUNDARIES[c.key].name,
                                     BOUNDARIES[c.key].level, c.parent,
                                     "call.xlsx")
           b     == TouchTargets(base, NoTargets)
       IN  /\ ~found => nextCode < MaxCodes
           /\ store' = (IF found THEN store \ {old} ELSE store) \cup {b}
           /\ nextCode' = IF found THEN nextCode ELSE nextCode + 1
           /\ inflight' = [inflight EXCEPT ![p].at = "done", ![p].code = b.code]
    /\ UNCHANGED <<facilities, pc, boundaries, fpath, sheets,
                   si, last_row, row, result, exc, rowlog, call, faults,
                   script, runs, snapshot, wb, session, excel>>

NextRace ==
    \/ \E p \in Procs : RaceQuery(p)
    \/ \E p \in Procs : RaceWrite(p)

SpecRace == InitRace /\ [][NextRace]_vars

(***************************************************************************)
(* A scripted batch run with a progress callback that may raise             *)
(***************************************************************************)
InitProgress ==
    /\ InitPipeline
    /\ faults = 0
    /\ script \in CrashScripts

\* lines 28-39: progress raises in log("Connecting to database...") or
\* log("Database ready."); nothing catches it, the call of run_transform
\* ends there
ProgressRaisesAtStart ==
    /\ pc \in {"idle", "raised"}
    /\ script.on => runs < 2
    /\ pc' = "raised"
    /\ exc' = "CallbackError"
    /\ boundaries' = <<>>
    /\ fpath' = ""
    /\ sheets' = <<>>
    /\ wb' = <<>>
    /\ si' = 0
    /\ last_row' = 0
    /\ row' = 0
    /\ rowlog' = NoRow
    /\ result' = NoResult
    /\ runs' = IF script.on THEN runs + 1 ELSE runs
    /\ snapshot' = IF script.on /\ runs = 1
                   THEN [store |-> store, facilities |-> facilities, exc |-> exc]
                   ELSE snapshot
    /\ UNCHANGED <<store, facilities, nextCode, call, faults, script,
                   inflight, session, excel>>

\* progress raises in a log call of the loops: lines 78 and 81 (a boundary
\* file is loaded), 91 (a sheet starts), 131 and 134 (a facility file is
\* loaded), 158 and 162 (the counts are about to be returned); each of them
\* precedes the writes of its step
ProgressRaises ==
    /\ \/ pc = "boundary_files" /\ BoundaryFileInputs # {}
       \/ pc = "boundary_sheets" /\ si <= Len(sheets)
       \/ pc = "facility_files" /\ FacilityFileInputs # {}
       \/ pc = "facility_files" /\ (script.on => fpath \in FacilityFilenames)
    /\ pc' = "raised"
    /\ exc' = "CallbackError"
    /\ UNCHANGED <<store, facilities, nextCode, boundaries, fpath, sheets, si,
                   last_row, row, result, rowlog, call, faults, script, runs,
                   snapshot, inflight, wb, session, excel>>

NextProgress ==
    \/ Next
    \/ ProgressRaisesAtStart
    \/ ProgressRaises

SpecProgress == InitProgress /\ [][NextProgress]_vars

(***************************************************************************)
(* Scripted batches whose workbooks hide some of their worksheets           *)
(***************************************************************************)
\* wb.worksheets of such a workbook
BookWorkbooks == UNION { [1..n -> SheetStates] : n \in 1..MaxBookSheets }

\* the data row every sheet of the boundary workbook holds: a district, and
\* a post or none
BookRows == { r \in ScriptRows : r.cells[3] # None }

BookScripts ==
    { [brows |-> <<r>>, frows |-> <<f>>, wb |-> w, on |-> TRUE] :
        r \in BookRows, f \in ScriptFacilityRows, w \in BookWorkbooks }

InitSheets ==
    /\ InitPipeline
    /\ faults = 0
    /\ script \in BookScripts

SpecSheets == InitSheets /\ [][Next]_vars


(***************************************************************************)
(* read_excel: the alternate ingestion mode (service/excel_services.py).    *)
(* The output frame df is a sequence of Boundary rows; append_to_df adds    *)
(* one row at its end.  ward, ward_code, health_facility and                *)
(* health_facility_code are carried from one sheet row to the next.         *)
(***************************************************************************)
\* the cells read_excel looks at: values[0], values[1], values[2] and
\* values[5] with values[6]
ExcelRows == { v \in [ap : {None, <<"a">>}, ward : {None, <<"a">>, <<"A">>}, hf : {None, <<"b">>}, settlement : {None, <<"a">>}] : (v.ap = None) <=> (v.ward = None) }

ExcelBoundary(name, parent_code, boundary_type, n) == [code |-> generate_short_code(n), name |-> name, parent_code |-> parent_code, boundary_type |-> boundary_type]

get_ward(values, parent_code, n) == ExcelBoundary(values.ward, parent_code, "WARD", n)

get_health_facility(values, parent_code, n) == ExcelBoundary(values.hf, parent_code, "HEALTH_FACILITY", n)

get_settlement(values, parent_code, n) == ExcelBoundary(values.settlement, parent_code, "SETTLEMENT", n)

\* df.query(name.str.lower() == ... and boundary_type == ... and
\* parent_code == ...): the rows of the frame that match b
DfQuery(df, b) == { i \in DOMAIN df : lower(df[i].name) = lower(b.name) /\ df[i].boundary_type = b.boundary_type /\ df[i].parent_code = b.parent_code }

\* lines 60-83: the health facility and the settlement of a row that also
\* names its ward.  x already holds the ward of the row.
WardRowFacility(x, values) ==
    LET h    == get_health_facility(values, x.ward_code, x.n)
        xh   == [x EXCEPT !.health_facility = TRUE,
                          !.health_facility_code = h.code,
                          !.n = x.n + 1]
        \* line 68 reads .code of a pandas Series: AttributeError, caught at
        \* line 114, and the rest of the row is skipped
        xa   == [xh EXCEPT !.df = Append(xh.df, h)]
        s    == get_settlement(values, xa.health_facility_code, xa.n)
        xs   == [xa EXCEPT !.n = xa.n + 1]
    IN  IF values.hf = None THEN x
        ELSE IF DfQuery(x.df, h) # {} THEN xh
        ELSE IF values.settlement = None THEN xa
        ELSE IF DfQuery(xs.df, s) # {} THEN xs
        ELSE [xs EXCEPT !.df = Append(xs.df, s)]

\* lines 48-59: a row that names its ward
WardRow(x, values) ==
    LET w  == get_ward(values, x.lga_code, x.n)
        xw == [x EXCEPT !.ward = TRUE, !.ward_code = w.code, !.n = x.n + 1]
    IN  \* line 57 reads .code of a pandas Series: AttributeError, caught at
        \* line 114, and the rest of the row is skipped
        IF DfQuery(x.df, w) # {} THEN xw
        ELSE WardRowFacility([xw EXCEPT !.df = Append(xw.df, w)], values)

\* lines 84-94: a row that supplies a health facility under the ward seen last
FacilityOnlyRow(x, values) ==
    LET h  == get_health_facility(values, x.ward_code, x.n)
        xh == [x EXCEPT !.health_facility = TRUE,
                        !.health_facility_code = h.code,
                        !.n = x.n + 1]
    IN  IF DfQuery(x.df, h) # {} THEN xh
        ELSE [xh EXCEPT !.df = Append(xh.df, h),
                        !.carried = xh.carried \cup {h.code}]

\* lines 95-107: a row that supplies a settlement under the health facility
\* seen last
SettlementOnlyRow(x, values) ==
    LET s  == get_settlement(values, x.health_facility_code, x.n)
        xs == [x EXCEPT !.n = x.n + 1]
    IN  IF DfQuery(x.df, s) # {} THEN xs
        ELSE [xs EXCEPT !.df = Append(xs.df, s),
                        !.carried = xs.carried \cup {s.code}]

\* lines 43-116: one iteration of the row loop
ExcelRow(x, values) ==
    LET xr == [x EXCEPT !.current_row = x.current_row + 1]
    IN  IF values.ap # None /\ values.ward # None THEN WardRow(xr, values)
        ELSE IF values.hf # None /\ xr.ward THEN FacilityOnlyRow(xr, values)
        ELSE IF values.settlement # None /\ xr.health_facility THEN SettlementOnlyRow(xr, values)
        ELSE xr

\* lines 30-42: the LGA boundary is appended and the carried locals are None.
\* current_row counts the rows read; carried records the codes of the rows
\* appended by the two carry-over branches.
CallReadExcel ==
    /\ excel = NoExcel
    /\ \E lga_name \in {<<"a">>, <<"b">>} :
         LET lga_boundary == ExcelBoundary(lga_name, BOUNDARY_1_CODE, "LGA", 0)
         IN  excel' = [ on |-> TRUE,
                        df |-> <<lga_boundary>>,
                        lga_code |-> lga_boundary.code,
                        ward |-> FALSE, ward_code |-> "None",
                        health_facility |-> FALSE,
                        health_facility_code |-> "None",
                        n |-> 1, current_row |-> 0, carried |-> {} ]
    /\ UNCHANGED <<store, facilities, nextCode, pc, boundaries, fpath, sheets,
                   si, last_row, row, result, exc, rowlog, call, faults,
                   script, runs, snapshot, inflight, wb, session>>

ReadExcelRow ==
    /\ excel.on
    /\ excel.current_row < MaxExcelRows
    /\ \E values \in ExcelRows : excel' = ExcelRow(excel, values)
    /\ UNCHANGED <<store, facilities, nextCode, pc, boundaries, fpath, sheets,
                   si, last_row, row, result, exc, rowlog, call, faults,
                   script, runs, snapshot, inflight, wb, session>>

\* line 118: the frame is returned
ReturnReadExcel ==
    /\ excel.on
    /\ excel' = [excel EXCEPT !.on = FALSE]
    /\ UNCHANGED <<store, facilities, nextCode, pc, boundaries, fpath, sheets,
                   si, last_row, row, result, exc, rowlog, call, faults,
                   script, runs, snapshot, inflight, wb, session>>

NextExcel ==
    \/ CallReadExcel
    \/ ReadExcelRow
    \/ ReturnReadExcel

InitExcel ==
    /\ InitPipeline
    /\ faults = 0
    /\ script = NoScript

SpecExcel == InitExcel /\ [][NextExcel]_vars

(***************************************************************************)
(* Properties                                                               *)
(***************************************************************************)
LevelOf(k) == BOUNDARIES[k].level

BoundaryNodes(st) ==
    { <<b.name, b.boundary_type, b.parent_code, b.code>> : b \in st }

FacilityKeys(fs) == { <<f.facility_name, f.boundary_code>> : f \in fs }

C2_Hierarchy ==
    \A b \in store :
        b.boundary_level > 1 =>
            \E p \in store : /\ p.code = b.parent_code
                             /\ p.boundary_level = b.boundary_level - 1

C4_Overwrite ==
    \A u \in rowlog.upserts :
        LevelOf(u.key) = max_level =>
            \E b \in store :
                /\ b.code = u.code
                /\ \A i \in TARGET_COLUMNS :
                     /\ i \in DOMAIN rowlog.targets
                     /\ b.target[i] = rowlog.targets[i]
                     /\ b.total[i] = rowlog.targets[i]

\* a stored boundary holding target_3 = 5 was ingested again with 9
C4_Witness ==
    \E u \in rowlog.upserts :
        /\ LevelOf(u.key) = max_level
        /\ ~u.created
        /\ u.before[3] = 5
        /\ rowlog.targets[3] = 9

\* C5: zero-then-set.  After upsert_boundary resolves a boundary at the
\* deepest level, every target_i/total_i field, i = 1..15, holds the value
\* of the targets mapping when category i is in the mapping, and 0 otherwise.
C5_ZeroThenSet ==
    (call.routine = "upsert_boundary" /\ LevelOf(call.key) = max_level) =>
        \A b \in store :
            b.code = call.code =>
                \A i \in TargetFields :
                    /\ b.target[i] = (IF i \in DOMAIN call.targets
                                      THEN call.targets[i] ELSE 0)
                    /\ b.total[i] = (IF i \in DOMAIN call.targets
                                     THEN call.targets[i] ELSE 0)

\* C6: only the deepest level carries targets.  Every stored Boundary above
\* the deepest configured level has all its target_i and total_i at 0.
C6_NoTargetsAbove ==
    \A b \in store :
        b.boundary_level < max_level =>
            b.target = ZeroTargets /\ b.total = ZeroTargets

\* a row with a non-empty targets dict has upserted a boundary above the
\* deepest level
C6_Witness ==
    /\ rowlog.targets # NoTargets
    /\ \E u \in rowlog.upserts :
         /\ LevelOf(u.key) < max_level
         /\ \E b \in store : b.code = u.code

\* C7: truncation on an empty cell.  A row upserts no Boundary at a level
\* whose cell, or the cell of a level above it (from level 3 on), is empty.
C7_Truncation ==
    \A u \in rowlog.upserts :
        \A k \in LevelCells :
            LevelOf(k) <= LevelOf(u.key) => rowlog.cells[k] # None

\* C8: row-state policy.  The parent code a row uses at level k is the code
\* the same row resolved at level k-1 (the seeded province for level 3).
C8_RowState ==
    \A u \in rowlog.upserts :
        IF LevelOf(u.key) = 3
        THEN u.parent = BOUNDARY_2_CODE
        ELSE \E v \in rowlog.upserts :
                /\ LevelOf(v.key) = LevelOf(u.key) - 1
                /\ v.code = u.parent

\* C9: a missing hierarchy cell is never fatal.  No row makes run_transform
\* raise on the lookup of the previous level.
C9_MissingCellNotFatal == ~(pc = "raised" /\ exc = "KeyError")

\* C10: a persistence failure is never fatal for boundaries.  No failing
\* query or commit of a boundary upsert leaves run_transform as an exception.
C10_PersistenceNotFatal == ~(pc = "raised" /\ exc = "PersistenceError")

\* C11: idempotent seeding of the second level.  However many times the
\* province is seeded, and under whatever province code, the store holds at
\* most one level-2 Boundary with the configured name (trimmed, whatever the
\* case), the level-2 type and the root code as parent.
C11_SeedOnce ==
    Cardinality({ b \in store :
                    /\ b.boundary_level = 2
                    /\ lower(b.name) = lower(strip(BOUNDARY_2_NAME))
                    /\ b.boundary_type = BOUNDARIES[2].name
                    /\ b.parent_code = BOUNDARY_1_CODE }) <= 1

\* C12: facility fan-out.  A call of create_health_facility whose name
\* matches k >= 1 level-4 Boundaries (case and spaces ignored), on a table
\* holding no Facility of that name, adds exactly k Facility rows, one per
\* matching boundary and under its code, all with the target of the call,
\* and touches no other row.
C12_FanOut ==
    [][ LET nm    == removeSpaces(lower(strip(call'.facility_name)))
            cand  == { b \in store : /\ b.boundary_level = 4
                                     /\ removeSpaces(lower(b.name)) = nm }
            named == { f \in facilities :
                         removeSpaces(lower(f.facility_name)) = nm }
            added == facilities' \ facilities
        IN  (call'.routine = "create_health_facility" /\ named = {} /\ cand # {}) =>
               /\ facilities \subseteq facilities'
               /\ Cardinality(added) = Cardinality(cand)
               /\ \A b \in cand : \E f \in added : f.boundary_code = b.code
               /\ \A f \in added : f.target = call'.target ]_vars

\* one call has stored the same facility under two boundaries
C12_Witness ==
    /\ call.routine = "create_health_facility"
    /\ Cardinality(facilities) = 2
    /\ \E f, g \in facilities : /\ f.facility_name = g.facility_name
                                /\ f.boundary_code # g.boundary_code
                                /\ f.target = call.target
                                /\ g.target = call.target

\* C13: unresolved reference.  A call of create_health_facility whose
\* administrative-area text matches the name of no level-4 Boundary (case
\* and spaces ignored) stores no Facility, changes none, and logs exactly
\* one warning, whatever the facility name is.
C13_Unresolved ==
    [][ LET area == removeSpaces(lower(strip(call'.mapping)))
        IN  ( /\ call'.routine = "create_health_facility"
              /\ ~ \E b \in store : /\ b.boundary_level = 4
                                    /\ removeSpaces(lower(b.name)) = area ) =>
               /\ facilities' = facilities
               /\ call'.warnings = 1 ]_vars

\* C14: facility update on re-match.  When a call of create_health_facility
\* reaches a level-4 boundary whose name matches and a Facility with the
\* call's (trimmed) name and that boundary's code is stored, the stored row
\* carries, after the call, the target, facility_type and filename of the
\* call, whatever administrative area the call or the stored row carries.
C14_UpdateOnRematch ==
    [][ LET nm   == removeSpaces(lower(strip(call'.facility_name)))
            cand == { b \in store : /\ b.boundary_level = 4
                                    /\ removeSpaces(lower(b.name)) = nm }
        IN  call'.routine = "create_health_facility" =>
              \A b \in cand : \A f \in facilities :
                 ( /\ f.facility_name = strip(call'.facility_name)
                   /\ f.boundary_code = b.code ) =>
                     \E g \in facilities' :
                        /\ g.facility_name = f.facility_name
                        /\ g.boundary_code = f.boundary_code
                        /\ g.target = call'.target
                        /\ g.facility_type = call'.facility_type
                        /\ g.filename = call'.filename ]_vars

\* C15: facility reference invariant.  In every state the runs of
\* run_transform reach, the boundary_code of every stored Facility is the
\* code of a stored Boundary of level 4.
C15_FacilityReference ==
    \A f \in facilities :
       \E b \in store : b.code = f.boundary_code /\ b.boundary_level = 4

\* a facility row has just stored a Facility while a district of the same
\* name is stored too
C15_Witness ==
    /\ pc = "facility_rows"
    /\ \E f \in facilities :
          /\ \E b \in store : b.code = f.boundary_code /\ b.boundary_level = 4
          /\ \E d \in store :
                /\ d.boundary_level = 3
                /\ removeSpaces(lower(d.name)) = removeSpaces(lower(f.facility_name))

\* C16: provenance chain.  The parent_code of every stored Facility is the
\* code of the district of its boundary, a comma, and the code of the
\* province of that district, whose own parent is the root: every ancestor
\* below the root, nearest first, and not the root code.
C16_Provenance ==
    \A f \in facilities :
       \E b \in store, d \in store, p \in store :
          /\ b.code = f.boundary_code
          /\ d.code = b.parent_code
          /\ p.code = d.parent_code
          /\ p.parent_code = BOUNDARY_1_CODE
          /\ f.parent_code = d.code \o "," \o p.code

\* a facility row has stored a Facility whose administrative area is the
\* name of its district (the rows the update branch re-matches), with the
\* chain of district and province on it
C16_Witness ==
    /\ pc = "facility_rows"
    /\ \E f \in facilities, b \in store :
          /\ b.code = f.boundary_code
          /\ f.administrative_area = ParentName(store, b)
          /\ f.parent_code = b.parent_code \o "," \o BOUNDARY_2_CODE

C18_NotAtomic ==
    \A p, q \in Procs :
       ( /\ p # q
         /\ inflight[p].at = "done" /\ inflight[q].at = "done"
         /\ inflight[p].found = "" /\ inflight[q].found = ""
         /\ lower(strip(inflight[p].name)) = lower(strip(inflight[q].name))
         /\ inflight[p].key = inflight[q].key
         /\ inflight[p].parent = inflight[q].parent ) =>
            /\ inflight[p].code # inflight[q].code
            /\ \E b1, b2 \in store :
                  /\ b1.code = inflight[p].code
                  /\ b2.code = inflight[q].code
                  /\ lower(b1.name) = lower(b2.name)
                  /\ b1.boundary_type = b2.boundary_type
                  /\ b1.parent_code = b2.parent_code

\* both runs queried before either committed, and two Boundaries of one
\* triple are stored under different codes
C18_Witness ==
    /\ \A p \in Procs : inflight[p].at = "done" /\ inflight[p].found = ""
    /\ \E b1, b2 \in store :
          /\ b1.code # b2.code
          /\ b1.code = inflight[1].code
          /\ b2.code = inflight[2].code
          /\ lower(b1.name) = lower(b2.name)
          /\ b1.boundary_type = b2.boundary_type
          /\ b1.parent_code = b2.parent_code

\* C19: the progress callback cannot influence the run.  When the first
\* call of run_transform on a batch has ended, with whatever callback, both
\* tables and the counts it returned are those of the same call without a
\* callback.
C19_CallbackHarmless ==
    (script.on /\ runs = 1 /\ pc \in {"idle", "raised"}) =>
        LET r == RunBatch({}, {}, 0, script)
        IN  /\ store = r.store
            /\ facilities = r.facilities
            /\ result = r.result

InFacilityLoops == { "facility_files", "facility_sheets", "facility_rows" }

\* C20: phase ordering.  Facilities are looked up and written only in the
\* facility phase of a run, and from the moment a run enters that phase
\* until it returns no Boundary is upserted: every boundary upsert of the
\* run precedes its first facility lookup.
C20_PhaseOrder ==
    [][ /\ pc \in InFacilityLoops =>
              (store' = store /\ pc' \in InFacilityLoops \cup {"idle"})
        /\ facilities' # facilities => pc = "facility_rows" ]_vars

\* a run that upserted boundaries is past its first facility row and has
\* stored a Facility
C20_Witness ==
    /\ pc = "facility_rows"
    /\ row > FACILITY_START_ROW
    /\ \E b \in store : b.boundary_level = 4 /\ b.filename = "b1.xlsx"
    /\ \E f \in facilities : f.filename = fpath

\* the workbook indices of the worksheets whose sheet_state is "visible"
VisibleSheets(w) == { i \in DOMAIN w : w[i] = "visible" }

\* C21: only visible sheets are ingested.  While run_transform is in a row
\* loop, the sheet whose rows it reads is a worksheet of the workbook whose
\* sheet_state is "visible", and the sheets it has been through before are
\* exactly the visible worksheets that precede it in the workbook; when the
\* sheet loop of a workbook is exhausted, the sheets it has been through are
\* exactly the visible worksheets.  The rows of a sheet that is not visible
\* are never read, so they create and modify nothing.
C21_VisibleOnly ==
    /\ pc \in {"boundary_rows", "facility_rows"} =>
          /\ si \in DOMAIN sheets
          /\ sheets[si] \in VisibleSheets(wb)
          /\ { sheets[j] : j \in 1..(si - 1) } =
                { i \in VisibleSheets(wb) : i < sheets[si] }
    /\ (pc \in {"boundary_sheets", "facility_sheets"} /\ si > Len(sheets)) =>
          { sheets[j] : j \in DOMAIN sheets } = VisibleSheets(wb)

\* a hidden sheet comes first in the workbook: the rows being read are the
\* rows of the second sheet and a district of that sheet is stored
C21_Witness ==
    /\ pc = "boundary_rows"
    /\ wb = <<"hidden", "visible">>
    /\ sheets[si] = 2
    /\ row = last_row + 1
    /\ \E b \in store : b.boundary_level = 3

\* C22: first-writer-wins reuse.  A call of upsert_boundary that finds a
\* stored Boundary (whatever the case and the surrounding whitespace of the
\* name it is called with) raises nothing and leaves the code, name,
\* name_in_english, parent_code, boundary_type and boundary_level of that
\* Boundary as they were; its target fields change only at the deepest
\* level, and no other Boundary changes.
C22_FirstWriterWins ==
    [][ (call'.routine = "upsert_boundary" /\ ~call'.created) =>
          \E old \in store, new \in store' :
             /\ old.code = call'.code
             /\ new.code = old.code
             /\ new.name = old.name
             /\ new.name_in_english = old.name_in_english
             /\ new.parent_code = old.parent_code
             /\ new.boundary_type = old.boundary_type
             /\ new.boundary_level = old.boundary_level
             /\ old.boundary_level # max_level =>
                   /\ new.target = old.target
                   /\ new.total = old.total
             /\ store' \ {new} = store \ {old} ]_vars

\* a Boundary stored as "a" was found again under the spelling " A " and
\* still reads "a"
C22_Witness ==
    /\ call.routine = "upsert_boundary"
    /\ ~call.created
    /\ call.name = <<" ", "A", " ">>
    /\ \E b \in store : b.code = call.code /\ b.name = <<"a">>

\* C23: update frame of a Facility.  No call of create_health_facility
\* changes the administrative_area, the facility_name or the boundary_code
\* of a stored Facility: every Facility stored before the call is stored
\* after it under the same three values, whatever administrative-area text
\* and spelling of the name the call carries, and an update adds no row.
C23_UpdateFrame ==
    [][ /\ \A f \in facilities : \E g \in facilities' :
              /\ g.facility_name = f.facility_name
              /\ g.boundary_code = f.boundary_code
              /\ g.administrative_area = f.administrative_area
        /\ \A b \in MatchBoundaries(store, call'.facility_name, call'.facility_type) :
              ExistingFacility(facilities, store, call'.facility_name, b) # {} =>
                 Cardinality({ g \in facilities' : g.boundary_code = b.code }) =
                 Cardinality({ f \in facilities : f.boundary_code = b.code }) ]_vars

\* a Facility stored as "a" under the administrative area "a" was updated by
\* a call that spelled it "A " under the administrative area "z"
C23_Witness ==
    /\ call.routine = "create_health_facility"
    /\ call.facility_name = <<"A", " ">>
    /\ call.mapping = <<"z">>
    /\ call.filename = "h2.xlsx"
    /\ \E f \in facilities, b \in store :
          /\ f.boundary_code = b.code
          /\ f \in ExistingFacility(facilities, store, call.facility_name, b)
          /\ f.facility_name = <<"a">>
          /\ f.administrative_area = <<"a">>
          /\ f.filename = "h2.xlsx"
          /\ f.target = 7

\* C24: entities are never deleted or re-keyed.  Across every step of every
\* sequence of runs, each stored Boundary is still stored after the step
\* under the same code, parent_code, boundary_type and boundary_level, and
\* each stored Facility is still stored under the same (facility_name,
\* boundary_code): both key sets only grow.
C24_NeverDeleted ==
    [][ /\ \A b \in store : \E c \in store' :
              /\ c.code = b.code
              /\ c.parent_code = b.parent_code
              /\ c.boundary_type = b.boundary_type
              /\ c.boundary_level = b.boundary_level
        /\ { b.code : b \in store } \subseteq { c.code : c \in store' }
        /\ FacilityKeys(facilities) \subseteq FacilityKeys(facilities') ]_vars

\* a later run, with Facilities stored by an earlier one, has just upserted
\* a Boundary that was stored already
C24_Witness ==
    /\ pc = "boundary_rows"
    /\ facilities # {}
    /\ \E u \in rowlog.upserts : ~u.created /\ u.key = 4

\* C28: no dangling parent after a failed insert.  In every state reachable
\* over a persistence whose queries and commits may fail, every stored
\* Boundary of level 3 or deeper has a parent_code that is the code of a
\* stored Boundary: a Boundary whose insert failed at commit never becomes
\* the parent of a committed one.
C28_NoDanglingParent ==
    \A b \in store :
        b.boundary_level >= 3 => \E p \in store : p.code = b.parent_code

\* the commit that inserts the district of a row failed, the row went on to
\* its post cell, and the run ended there with nothing stored under the
\* code of the district
C28_Witness ==
    /\ pc = "raised"
    /\ exc = "PersistenceError"
    /\ session = "inactive"
    /\ rowlog.cells # <<>>
    /\ rowlog.cells[4] # None
    /\ \E u \in rowlog.upserts :
          /\ u.key = 3
          /\ u.created
          /\ ~\E b \in store : b.code = u.code \/ b.parent_code = u.code

\* C25: termination of the ancestor walk.  In every reachable store, the
\* upward walk over parent_code that create_health_facility makes from any
\* level-4 Boundary ends (no code is met twice before the root code or a
\* missing parent is reached), after at most as many steps as there are
\* configured levels.
C25_WalkTerminates ==
    \A b \in store :
        b.boundary_level = 4 =>
            LET w == AncestorWalk(store, b.parent_code, <<>>)
            IN  /\ w.ends
                /\ Len(w.ancestors) <= Len(BOUNDARIES)

\* a Facility is stored whose parent_code is the chain of a walk of two
\* steps: the district of its post, then the province
C25_Witness ==
    \E f \in facilities, b \in store :
        /\ b.code = f.boundary_code
        /\ Len(AncestorWalk(store, b.parent_code, <<>>).ancestors) = 2
        /\ f.parent_code = join(",", AncestorWalk(store, b.parent_code, <<>>).ancestors)

\* C26: boundary row range.  Every iteration of the boundary row loop reads
\* a row index between START_BOUNDARIES_ROW and the sheet's max_row, the
\* first iteration of a sheet reads START_BOUNDARIES_ROW itself, and each
\* iteration reads the index after the one read before.
C26_RowRange ==
    [][ (pc = "boundary_rows" /\ row' = row + 1) =>
          /\ row' \in START_BOUNDARIES_ROW..last_row
          /\ rowlog = NoRow => row' = START_BOUNDARIES_ROW ]_vars

\* C27: a facility write failure is local.  In a call of
\* create_health_facility, for every matched boundary whose commit fails
\* (the persistence fails, or the insert meets a stored primary key), the
\* Facilities stored under that boundary are the same after the call as
\* before it; every other matched boundary is still processed (a Facility of
\* the row's name carries the row's target, type and filename under it); and
\* the Facilities of boundaries the row does not match are untouched.
C27_WriteFailureLocal ==
    [][ LET matches == MatchBoundaries(store, call'.facility_name, call'.facility_type)
            nm      == removeSpaces(lower(strip(call'.facility_name)))
            clash(b) == /\ ExistingFacility(facilities, store, call'.facility_name, b) = {}
                        /\ \E f \in facilities :
                              /\ f.facility_name = strip(call'.facility_name)
                              /\ f.boundary_code = b.code
        IN  call'.routine = "create_health_facility" =>
              /\ \A b \in matches :
                    IF b.code \in call'.failing \/ clash(b)
                    THEN { g \in facilities' : g.boundary_code = b.code } =
                         { f \in facilities : f.boundary_code = b.code }
                    ELSE \E g \in facilities' :
                            /\ g.boundary_code = b.code
                            /\ removeSpaces(lower(g.facility_name)) = nm
                            /\ g.target = call'.target
                            /\ g.facility_type = call'.facility_type
                            /\ g.filename = call'.filename
              /\ \A f \in facilities :
                    (\A b \in matches : f.boundary_code # b.code) => f \in facilities'
        ]_vars

\* a row matched two boundaries; the commit failed for one of them, under
\* which nothing is stored, and the Facility of the other one was written
C27_Witness ==
    /\ call.routine = "create_health_facility"
    /\ \E b1, b2 \in MatchBoundaries(store, call.facility_name, call.facility_type) :
          /\ b1.code \in call.failing
          /\ b2.code \notin call.failing
          /\ ~\E f \in facilities : f.boundary_code = b1.code
          /\ \E g \in facilities : /\ g.boundary_code = b2.code
                                   /\ g.filename = call.filename
                                   /\ g.target = call.target

\* C29: fuzzy uniqueness of facilities.  After any sequence of
\* create_health_facility calls no two stored Facilities have the same
\* boundary_code and facility names that are equal once lower-cased and
\* stripped of their spaces.
C29_FacilityFuzzyUnique ==
    \A f, g \in facilities :
        ( /\ f.boundary_code = g.boundary_code
          /\ removeSpaces(lower(f.facility_name)) =
             removeSpaces(lower(g.facility_name)) ) => f = g


\* C30: in read_excel, every health facility or settlement appended for a row
\* that supplies only a deeper-level cell has a parent_code that is the code
\* of a boundary present in the output frame, also when the ward or health
\* facility seen last was a duplicate of one already in the output.
C30_CarryoverResolvable ==
    excel # NoExcel =>
        \A i \in DOMAIN excel.df :
            excel.df[i].code \in excel.carried =>
                \E j \in DOMAIN excel.df : excel.df[j].code = excel.df[i].parent_code

====
